---- MODULE Spec2Model ----
(***************************************************************************)
(* Context-aware authentication and authorisation: the identity provider   *)
(* (idp/app.py), the local service (local_service/app.py) and the resource *)
(* API (resource_api/auth.py, context.py, app.py).                         *)
(*                                                                         *)
(* A Python str on which the code works character by character (strip,     *)
(* lower, split, startswith, int) is a sequence of one-character strings;  *)
(* a str the code only compares with == (role, sub, typ, iss, secrets) is  *)
(* a TLA+ string.  A dict is a function from its keys; a missing key is a  *)
(* key outside its DOMAIN.                                                 *)
(***************************************************************************)
EXTENDS Integers, Sequences, FiniteSets, TLC

VARIABLES cfg, clock, ticks, held, heldClaims, last

vars == <<cfg, clock, ticks, held, heldClaims, last>>

(***************************************************************************)
(* Python str operations                                                   *)
(***************************************************************************)

\* The characters str.strip() removes (the ASCII ones).
Whitespace == {" ", "\t", "\n", "\r", "\f"}

RECURSIVE lstrip(_)
lstrip(s) ==
    IF Len(s) = 0 THEN s
    ELSE IF Head(s) \in Whitespace THEN lstrip(Tail(s)) ELSE s

RECURSIVE rstrip(_)
rstrip(s) ==
    IF Len(s) = 0 THEN s
    ELSE IF s[Len(s)] \in Whitespace THEN rstrip(SubSeq(s, 1, Len(s) - 1)) ELSE s

strip(s) == rstrip(lstrip(s))

UpperLetters == <<"A","B","C","D","E","F","G","H","I","J","K","L","M",
                  "N","O","P","Q","R","S","T","U","V","W","X","Y","Z">>
LowerLetters == <<"a","b","c","d","e","f","g","h","i","j","k","l","m",
                  "n","o","p","q","r","s","t","u","v","w","x","y","z">>

lower_char(c) ==
    IF \E i \in 1..Len(UpperLetters) : UpperLetters[i] = c
    THEN LowerLetters[CHOOSE i \in 1..Len(UpperLetters) : UpperLetters[i] = c]
    ELSE c

lower(s) == [i \in 1..Len(s) |-> lower_char(s[i])]

startswith(s, p) == Len(p) <= Len(s) /\ SubSeq(s, 1, Len(p)) = p

\* The index of the first occurrence of character c in s, 0 when there is none.
find(s, c) ==
    IF \E i \in 1..Len(s) : s[i] = c
    THEN CHOOSE i \in 1..Len(s) : s[i] = c /\ \A j \in 1..(i - 1) : s[j] # c
    ELSE 0

\* s.split(c): the pieces between every occurrence of the character c.
RECURSIVE split(_, _)
split(s, c) ==
    IF find(s, c) = 0 THEN <<s>>
    ELSE <<SubSeq(s, 1, find(s, c) - 1)>> \o split(SubSeq(s, find(s, c) + 1, Len(s)), c)

\* s.split(c, 1): at most one split, at the first occurrence of c.
split1(s, c) ==
    IF find(s, c) = 0 THEN <<s>>
    ELSE <<SubSeq(s, 1, find(s, c) - 1), SubSeq(s, find(s, c) + 1, Len(s))>>

Digits == <<"0","1","2","3","4","5","6","7","8","9">>

IsDigit(c) == \E i \in 1..10 : Digits[i] = c

digit_value(c) == (CHOOSE i \in 1..10 : Digits[i] = c) - 1

RECURSIVE digits_value(_)
digits_value(s) ==
    IF Len(s) = 0 THEN 0
    ELSE 10 * digits_value(SubSeq(s, 1, Len(s) - 1)) + digit_value(s[Len(s)])

\* int(str): surrounding whitespace is dropped, one sign is allowed, the rest
\* must be decimal digits; anything else raises ValueError.
int_of_str(s) ==
    LET t == strip(s)
        signed == Len(t) > 0 /\ t[1] \in {"+", "-"}
        body == IF signed THEN Tail(t) ELSE t
    IN IF Len(body) > 0 /\ \A i \in 1..Len(body) : IsDigit(body[i])
       THEN [ok |-> TRUE,
             val |-> IF signed /\ t[1] = "-" THEN 0 - digits_value(body)
                     ELSE digits_value(body)]
       ELSE [ok |-> FALSE, val |-> 0]

(***************************************************************************)
(* JSON values carried in a claims dict.  deviceid (a string or null) and   *)
(* riskscore (any JSON value) are tagged with their JSON type.             *)
(***************************************************************************)

JInt(n) == [t |-> "int", v |-> n]
JStr(s) == [t |-> "str", s |-> s]
JNull == [t |-> "null"]

\* dict.get(key): membership of the key is asked separately.
Has(d, k) == k \in DOMAIN d

\* A key that may be missing from the dict.
Opt(S) == {[has |-> TRUE, v |-> x] : x \in S} \cup {[has |-> FALSE]}

Field(k, o) == IF o.has THEN k :> o.v ELSE <<>>

\* int(x) for a JSON value x, as the try/except around it sees it.
int_of_json(x) ==
    CASE x.t = "int" -> [ok |-> TRUE, val |-> x.v]
      [] x.t = "str" -> int_of_str(x.s)
      [] OTHER -> [ok |-> FALSE, val |-> 0]

(***************************************************************************)
(* resource_api/context.py: the policy decision point                      *)
(***************************************************************************)

BH_START == 7
BH_END == 19

\* _parse_csv on the raw value of the environment variable (or its default).
_parse_csv(raw) ==
    LET parts == split(raw, ",")
    IN {strip(parts[i]) : i \in {j \in 1..Len(parts) : Len(strip(parts[j])) > 0}}

SENSITIVE_PATHS_default == <<"/","e","x","p","o","r","t",",","/","a","d","m","i","n",",","/","a","d","m","i","n","/","m","e","t","r","i","c","s">>

REGISTERED_DEVICE_IDS_default == <<"m","a","c","-","0","0","1",",","w","i","n","-","0","0","7",",","p","h","o","n","e","-","1","2","3">>

SENSITIVE_PATHS == _parse_csv(SENSITIVE_PATHS_default)

REGISTERED_DEVICE_IDS == _parse_csv(REGISTERED_DEVICE_IDS_default)

\* A mutant of _within_business_hours: the end hour is inclusive.
within_business_hours_end_inclusive(hour) == BH_START <= hour /\ hour <= BH_END

\* now.hour is the hour field of the datetime the caller passed or of
\* datetime.now(TZ).
_within_business_hours(hour) == BH_START <= hour /\ hour < BH_END

\* A mutant of _is_sensitive_path: a plain prefix test, without the separator.
is_sensitive_path_plain_prefix(path, sensitive) ==
    \E p \in sensitive : path = p \/ startswith(path, p)

_is_sensitive_path(path, sensitive) ==
    \E p \in sensitive : path = p \/ startswith(path, p \o <<"/">>)

ReasonHours == "Access denied: outside business hours (7:00-19:00, Europe/Zurich)."
ReasonDeviceMissing == "Access denied: device ID missing."
ReasonDeviceUntrusted == "Access denied: device not trusted"
ReasonAdmin == "Access allowed: admin on sensitive endpoint."
ReasonHighRisk == "Access denied: high riskscore on sensitive endpoint."
ReasonStepUp == "Access requires step-up for sensitive endpoint."
ReasonAllowed == "Access allowed."

\* A (decision, reason) pair; arg is the device id the reason quotes.
DecisionReason(decision, reason, arg) ==
    [decision |-> decision, reason |-> reason, arg |-> arg]

\* (claims.get("deviceid") or "").strip()
claimed_deviceid(claims) ==
    IF Has(claims, "deviceid") /\ claims["deviceid"].t = "str"
    THEN strip(claims["deviceid"].s)
    ELSE <<>>

\* int(claims.get("riskscore", 0)), 0 on TypeError or ValueError.
claimed_riskscore(claims) ==
    IF ~Has(claims, "riskscore") THEN 0
    ELSE IF int_of_json(claims["riskscore"]).ok
         THEN int_of_json(claims["riskscore"]).val
         ELSE 0

\* A mutant of the PDP: the role and riskscore rules come before the device gate.
evaluate_role_before_device(path, claims, hour) ==
    LET deviceid == claimed_deviceid(claims)
    IN IF ~_within_business_hours(hour)
       THEN DecisionReason("deny", ReasonHours, <<>>)
       ELSE IF _is_sensitive_path(path, SENSITIVE_PATHS)
               /\ Has(claims, "role") /\ claims["role"] = "admin"
       THEN DecisionReason("allow", ReasonAdmin, <<>>)
       ELSE IF _is_sensitive_path(path, SENSITIVE_PATHS)
               /\ claimed_riskscore(claims) >= 70
       THEN DecisionReason("deny", ReasonHighRisk, <<>>)
       ELSE IF Len(deviceid) = 0
       THEN DecisionReason("deny", ReasonDeviceMissing, <<>>)
       ELSE IF deviceid \notin REGISTERED_DEVICE_IDS
       THEN DecisionReason("deny", ReasonDeviceUntrusted, deviceid)
       ELSE IF _is_sensitive_path(path, SENSITIVE_PATHS)
       THEN DecisionReason("challenge", ReasonStepUp, <<>>)
       ELSE DecisionReason("allow", ReasonAllowed, <<>>)

\* A mutant of the PDP: the riskscore threshold is exclusive (> 70).
evaluate_threshold_exclusive(path, claims, hour) ==
    LET deviceid == claimed_deviceid(claims)
    IN IF ~_within_business_hours(hour)
       THEN DecisionReason("deny", ReasonHours, <<>>)
       ELSE IF Len(deviceid) = 0
       THEN DecisionReason("deny", ReasonDeviceMissing, <<>>)
       ELSE IF deviceid \notin REGISTERED_DEVICE_IDS
       THEN DecisionReason("deny", ReasonDeviceUntrusted, deviceid)
       ELSE IF _is_sensitive_path(path, SENSITIVE_PATHS)
       THEN IF Has(claims, "role") /\ claims["role"] = "admin"
            THEN DecisionReason("allow", ReasonAdmin, <<>>)
            ELSE IF claimed_riskscore(claims) > 70
            THEN DecisionReason("deny", ReasonHighRisk, <<>>)
            ELSE DecisionReason("challenge", ReasonStepUp, <<>>)
       ELSE DecisionReason("allow", ReasonAllowed, <<>>)

\* evaluate_request_context(path, claims, now), with hour = now.hour.
evaluate_request_context(path, claims, hour) ==
    LET deviceid == claimed_deviceid(claims)
    IN \* 1) Time-based
       IF ~_within_business_hours(hour)
       THEN DecisionReason("deny", ReasonHours, <<>>)
       \* 2) Device allow-list
       ELSE IF Len(deviceid) = 0
       THEN DecisionReason("deny", ReasonDeviceMissing, <<>>)
       ELSE IF deviceid \notin REGISTERED_DEVICE_IDS
       THEN DecisionReason("deny", ReasonDeviceUntrusted, deviceid)
       \* 3) Sensitivity rules
       ELSE IF _is_sensitive_path(path, SENSITIVE_PATHS)
       THEN IF Has(claims, "role") /\ claims["role"] = "admin"
            THEN DecisionReason("allow", ReasonAdmin, <<>>)
            ELSE IF claimed_riskscore(claims) >= 70
            THEN DecisionReason("deny", ReasonHighRisk, <<>>)
            ELSE DecisionReason("challenge", ReasonStepUp, <<>>)
       \* 4) Default
       ELSE DecisionReason("allow", ReasonAllowed, <<>>)

(***************************************************************************)
(* The configuration read from the environment at start-up, and the state  *)
(***************************************************************************)

\* The environment's defaults: idp/app.py 12-14, resource_api/auth.py 6-7,
\* local_service/app.py 12-14.
DefaultConfig ==
    [idp_secret |-> "dev-secret-idp", idp_alg |-> "HS256",
     api_secret |-> "dev-secret-idp", api_alg |-> "HS256",
     local_secret |-> "local-secret", local_alg |-> "HS256"]

NoToken == [kind |-> "none"]
NoClaims == [none |-> TRUE]
Nothing == [op |-> "none"]

(***************************************************************************)
(* JSON Web Tokens: jwt.encode (PyJWT, idp; python-jose, local service)    *)
(* and jwt.decode (python-jose).  A token is its three segments; the HMAC  *)
(* is symbolic: two signatures are equal exactly when key, algorithm and   *)
(* signing input are.                                                      *)
(***************************************************************************)

\* The order in which the issuers insert the keys into the claims dict.
KeyOrder == <<"sub", "role", "deviceid", "riskscore", "iat", "exp", "typ",
              "auth_time", "iss">>

\* json.dumps of a dict: its key/value pairs in insertion order.
json_dumps(claims) ==
    LET present == SelectSeq(KeyOrder, LAMBDA k : k \in DOMAIN claims)
    IN [i \in 1..Len(present) |-> <<present[i], claims[present[i]]>>]

\* json.loads of an object: a dict; of a repeated key the last pair wins.
json_loads(pairs) ==
    [k \in {pairs[i][1] : i \in 1..Len(pairs)} |->
        pairs[CHOOSE i \in 1..Len(pairs) :
                  /\ pairs[i][1] = k
                  /\ \A j \in (i + 1)..Len(pairs) : pairs[j][1] # k][2]]

hmac(secret, alg, header, payload) ==
    [key |-> secret, alg |-> alg, header |-> header, payload |-> payload]

jwt_encode(claims, secret, alg) ==
    LET header == [alg |-> alg, typ |-> "JWT"]
        payload == json_dumps(claims)
    IN [kind |-> "jws", header |-> header, payload |-> payload,
        sig |-> hmac(secret, alg, header, payload)]

JwtError(e) == [ok |-> FALSE, error |-> e]

\* A mutant of jwt_decode: the signature is not verified.
jwt_decode_no_signature_check(token, secret, alg, now) ==
    IF token.kind # "jws" THEN JwtError("Not enough segments")
    ELSE IF token.header.alg # alg
    THEN JwtError("The specified alg value is not allowed")
    ELSE LET claims == json_loads(token.payload)
         IN IF "exp" \in DOMAIN claims /\ claims["exp"] < now
            THEN JwtError("Signature has expired.")
            ELSE [ok |-> TRUE, claims |-> claims]

\* jwt.decode(token, secret, algorithms=[alg]) at time now: the header's alg
\* must be allowed, the signature must verify, exp must not lie in the past.
jwt_decode(token, secret, alg, now) ==
    IF token.kind # "jws" THEN JwtError("Not enough segments")
    ELSE IF token.header.alg # alg
    THEN JwtError("The specified alg value is not allowed")
    ELSE IF token.sig # hmac(secret, alg, token.header, token.payload)
    THEN JwtError("Signature verification failed.")
    ELSE LET claims == json_loads(token.payload)
         IN IF "exp" \in DOMAIN claims /\ claims["exp"] < now
            THEN JwtError("Signature has expired.")
            ELSE [ok |-> TRUE, claims |-> claims]

\* In a header or cookie value, the compact serialization of the credential
\* the client holds is one item: a non-empty run of base64url characters and
\* dots, never whitespace.  JwsForged is such a run for a copy of the
\* credential whose payload was edited and whose signature was kept.
Jws == "<jws>"
JwsForged == "<jws*>"

Garbage == [kind |-> "garbage"]

Forge(token) ==
    [token EXCEPT !.payload =
        [i \in 1..Len(token.payload) |->
            IF token.payload[i][1] = "role" THEN <<"role", "admin">>
            ELSE IF token.payload[i][1] = "sub" THEN <<"sub", "root">>
            ELSE token.payload[i]]]

\* The token a compact serialization stands for.
parse_compact(text, credential) ==
    IF credential.kind = "jws" /\ text = <<Jws>> THEN credential
    ELSE IF credential.kind = "jws" /\ text = <<JwsForged>> THEN Forge(credential)
    ELSE Garbage

(***************************************************************************)
(* idp/app.py: the risk scorer                                             *)
(***************************************************************************)

Min(a, b) == IF a < b THEN a ELSE b
Max(a, b) == IF a > b THEN a ELSE b

UnknownDeviceNames == {<<>>, <<"u","n","k","n","o","w","n">>, <<"n","o","n","e">>}

\* A mutant of compute_risk: the device name is compared case-sensitively.
compute_risk_case_sensitive(role, deviceid) ==
    LET base == IF role = "contractor" THEN 40 + 20 ELSE 40
        risk == IF deviceid.t # "str" \/ Len(deviceid.s) = 0
                   \/ strip(deviceid.s) \in UnknownDeviceNames
                THEN base + 20 ELSE base
    IN Max(0, Min(risk, 99))

\* A mutant of compute_risk: contractors carry +30.
compute_risk_contractor_30(role, deviceid) ==
    LET base == IF role = "contractor" THEN 40 + 30 ELSE 40
        risk == IF deviceid.t # "str" \/ Len(deviceid.s) = 0
                   \/ lower(strip(deviceid.s)) \in UnknownDeviceNames
                THEN base + 20 ELSE base
    IN Max(0, Min(risk, 99))

\* compute_risk(role, deviceid); deviceid is a str (or None, which `not
\* deviceid` accepts).
compute_risk(role, deviceid) ==
    LET base == IF role = "contractor" THEN 40 + 20 ELSE 40
        risk == IF deviceid.t # "str" \/ Len(deviceid.s) = 0
                   \/ lower(strip(deviceid.s)) \in UnknownDeviceNames
                THEN base + 20 ELSE base
    IN Max(0, Min(risk, 99))

RiskRoles == {"contractor", "Contractor", "contractor ", "analyst", "admin", "user", ""}

RiskDeviceIds ==
    {JStr(d) : d \in {<<>>,
                      <<" ">>,
                      <<"\t","\n">>,
                      <<"u","n","k","n","o","w","n">>,
                      <<"U","N","K","N","O","W","N">>,
                      <<" ","U","n","k","n","o","w","n"," ">>,
                      <<"n","o","n","e">>,
                      <<"N","o","n","e">>,
                      <<"\t","N","O","N","E","\n">>,
                      <<"m","a","c","-","0","0","1">>,
                      <<"u","n","k","n","o","w","n","1">>,
                      <<"u","n"," ","k","n","o","w","n">>,
                      <<"n","i","l">>,
                      <<"n","u","l","l">>,
                      <<"n","o"," ","n","e">>}}
    \cup {JNull}

RiskCalls ==
    {[op |-> "call_compute_risk", role |-> role, deviceid |-> deviceid] :
        role \in RiskRoles, deviceid \in RiskDeviceIds}

\* compute_risk runs on the pending call.
ComputeRisk ==
    /\ last.op = "call_compute_risk"
    /\ last' = [op |-> "compute_risk", role |-> last.role, deviceid |-> last.deviceid,
                result |-> compute_risk(last.role, last.deviceid)]
    /\ UNCHANGED <<cfg, clock, ticks, held, heldClaims>>

InitRisk ==
    /\ cfg = DefaultConfig
    /\ clock = 0
    /\ ticks = 0
    /\ held = NoToken
    /\ heldClaims = NoClaims
    /\ last \in RiskCalls

NextRisk == ComputeRisk

SpecRisk == InitRisk /\ [][NextRisk]_vars


(***************************************************************************)
(* idp/app.py: login                                                       *)
(***************************************************************************)

TOKEN_EXP_MINUTES == 30

IDP_USERS ==
    [analyst |-> [password |-> "analyst", role |-> "analyst"],
     contractor |-> [password |-> "contractor", role |-> "contractor"],
     admin |-> [password |-> "admin", role |-> "admin"]]

\* Python truth of an Optional[str].
Truthy(x) == x.t = "str" /\ Len(x.s) > 0

\* (inp.deviceid or inp.device_id or "unknown").strip() or "unknown"
resolve_deviceid(deviceid, device_id) ==
    LET first == IF Truthy(deviceid) THEN deviceid.s
                 ELSE IF Truthy(device_id) THEN device_id.s
                 ELSE <<"u","n","k","n","o","w","n">>
    IN IF Len(strip(first)) > 0 THEN strip(first) ELSE <<"u","n","k","n","o","w","n">>

\* The claims login signs for an authenticated user at time now.
login_claims(username, deviceid, device_id, now) ==
    LET role == IDP_USERS[username].role
        resolved == resolve_deviceid(deviceid, device_id)
    IN [sub |-> username,
        role |-> role,
        deviceid |-> JStr(resolved),
        riskscore |-> JInt(compute_risk(role, JStr(resolved))),
        iat |-> now,
        exp |-> now + TOKEN_EXP_MINUTES * 60,
        typ |-> "access",
        auth_time |-> now]

(***************************************************************************)
(* local_service/app.py                                                    *)
(***************************************************************************)

LOCAL_TTL == 60

LOCAL_USERS ==
    [localuser |-> [password |-> "local", role |-> "user"],
     localadmin |-> [password |-> "admin", role |-> "admin"]]

_issue_local_token(sub, role, now) ==
    jwt_encode([sub |-> sub, role |-> role, iat |-> now, exp |-> now + LOCAL_TTL,
                typ |-> "local", iss |-> "local_service"],
               cfg.local_secret, cfg.local_alg)

\* HTTPException(status_code, detail)
Http(status, detail) == [status |-> status, detail |-> detail]

\* An HTTPException whose detail ends with the text of the JWTError.
HttpCause(status, detail, cause) ==
    [status |-> status, detail |-> detail, cause |-> cause]

\* A mutant of _decode_local_token: only typ is enforced.
decode_local_token_typ_only(token, now) ==
    LET r == jwt_decode(token, cfg.local_secret, cfg.local_alg, now)
    IN IF ~r.ok
       THEN [ok |-> FALSE,
             error |-> HttpCause(401, "Invalid or expired local session", r.error)]
       ELSE IF ~("typ" \in DOMAIN r.claims /\ r.claims["typ"] = "local")
       THEN [ok |-> FALSE, error |-> Http(401, "Invalid local token context")]
       ELSE [ok |-> TRUE, claims |-> r.claims]

_decode_local_token(token, now) ==
    LET r == jwt_decode(token, cfg.local_secret, cfg.local_alg, now)
    IN IF ~r.ok
       THEN [ok |-> FALSE,
             error |-> HttpCause(401, "Invalid or expired local session", r.error)]
       ELSE IF \/ ~("typ" \in DOMAIN r.claims /\ r.claims["typ"] = "local")
               \/ ~("iss" \in DOMAIN r.claims /\ r.claims["iss"] = "local_service")
       THEN [ok |-> FALSE, error |-> Http(401, "Invalid local token context")]
       ELSE [ok |-> TRUE, claims |-> r.claims]

\* The cookie is absent, or carries a compact serialization.
require_local_claims(cookie, credential, now) ==
    IF ~cookie.present \/ Len(cookie.text) = 0
    THEN [ok |-> FALSE, error |-> Http(401, "Missing local session cookie")]
    ELSE _decode_local_token(parse_compact(cookie.text, credential), now)

(***************************************************************************)
(* resource_api/auth.py and resource_api/app.py                            *)
(***************************************************************************)

BearerPrefix == <<"B","e","a","r","e","r"," ">>

\* A mutant of get_claims: the scheme is matched without regard to case.
get_claims_case_insensitive(authorization, credential, now) ==
    IF \/ ~authorization.present
       \/ Len(authorization.text) = 0
       \/ ~startswith(lower(authorization.text), lower(BearerPrefix))
    THEN [ok |-> FALSE,
          error |-> Http(401, "Missing Bearer token in Authorization header")]
    ELSE LET token == strip(split1(authorization.text, " ")[2])
         IN IF Len(token) = 0
            THEN [ok |-> FALSE, error |-> Http(401, "Empty bearer token")]
            ELSE LET r == jwt_decode(parse_compact(token, credential),
                                     cfg.api_secret, cfg.api_alg, now)
                 IN IF ~r.ok
                    THEN [ok |-> FALSE,
                          error |-> HttpCause(401, "Token invalid", r.error)]
                    ELSE [ok |-> TRUE, claims |-> r.claims]

get_claims(authorization, credential, now) ==
    IF \/ ~authorization.present
       \/ Len(authorization.text) = 0
       \/ ~startswith(authorization.text, BearerPrefix)
    THEN [ok |-> FALSE,
          error |-> Http(401, "Missing Bearer token in Authorization header")]
    ELSE LET token == strip(split1(authorization.text, " ")[2])
         IN IF Len(token) = 0
            THEN [ok |-> FALSE, error |-> Http(401, "Empty bearer token")]
            ELSE LET r == jwt_decode(parse_compact(token, credential),
                                     cfg.api_secret, cfg.api_alg, now)
                 IN IF ~r.ok
                    THEN [ok |-> FALSE,
                          error |-> HttpCause(401, "Token invalid", r.error)]
                    ELSE [ok |-> TRUE, claims |-> r.claims]

\* claims.get(key), None when the key is missing.
Get(d, k) == IF k \in DOMAIN d THEN [has |-> TRUE, v |-> d[k]] ELSE [has |-> FALSE]

NoDecision == [decision |-> "none"]

\* _apply_context: the decision and the response it becomes.
_apply_context(path, claims, hour) ==
    LET d == evaluate_request_context(path, claims, hour)
    IN [decision |-> d,
        response |->
            IF d.decision = "deny"
            THEN [status |-> 403, detail |-> d.reason]
            ELSE IF d.decision = "challenge"
            THEN [status |-> 200, body |-> "mfa_required", reason |-> d.reason]
            ELSE [status |-> 200, body |-> "ok", subject |-> Get(claims, "sub"),
                  role |-> Get(claims, "role"), path |-> path, reason |-> d.reason]]

(***************************************************************************)
(* The system: one client, the three services, and the clock               *)
(***************************************************************************)

\* The number of times the clock is advanced.
MaxTicks == 2

Algorithms == {"HS256", "HS384"}

\* The configurations: the defaults, a verifier whose secret or algorithm
\* differs from the identity provider's, and a local service that shares the
\* identity provider's secret.
Configs ==
    {DefaultConfig,
     [DefaultConfig EXCEPT !.idp_secret = "other-secret"],
     [DefaultConfig EXCEPT !.idp_alg = "HS384"],
     [DefaultConfig EXCEPT !.idp_alg = "HS384", !.api_alg = "HS384"],
     [DefaultConfig EXCEPT !.local_secret = "dev-secret-idp"]}

\* The clock counts seconds from a local midnight; it starts at 06:59:59.
StartTimes == {7 * 3600 - 1}

TickSteps == {1, LOCAL_TTL, TOKEN_EXP_MINUTES * 60}

\* datetime.now(TZ).hour
HourOf(now) == (now \div 3600) % 24

\* Username and password pairs: the three users, a wrong password, a stranger.
LoginCredentials ==
    {<<"analyst", "analyst">>, <<"contractor", "contractor">>, <<"admin", "admin">>,
     <<"analyst", "admin">>, <<"mallory", "analyst">>}
\* The deviceid and device_id fields of a login request (None when not sent).
LoginDevices ==
    {<<JNull, JNull>>,
     <<JStr(<<" ">>), JNull>>,
     <<JStr(<<"m","a","c","-","0","0","1">>), JNull>>,
     <<JStr(<<" ","w","i","n","-","0","0","7","\n">>), JStr(<<"p","h","o","n","e","-","1","2","3">>)>>,
     <<JStr(<<>>), JStr(<<"p","h","o","n","e","-","1","2","3">>)>>,
     <<JStr(<<"U","N","K","N","O","W","N">>), JNull>>,
     <<JNull, JStr(<<"N","o","n","e">>)>>,
     <<JStr(<<"t","a","b","l","e","t","-","9">>), JNull>>}

\* POST /login
Login ==
    /\ last = Nothing
    /\ \E cred \in LoginCredentials,
          dev \in LoginDevices :
          LET username == cred[1]
              password == cred[2]
              deviceid == dev[1]
              device_id == dev[2]
          IN
          IF username \notin DOMAIN IDP_USERS
             \/ IDP_USERS[username].password # password
          THEN /\ last' = [op |-> "login", response |-> Http(401, "Invalid credentials")]
               /\ UNCHANGED <<held, heldClaims>>
          ELSE LET claims == login_claims(username, deviceid, device_id, clock)
               IN /\ held' = jwt_encode(claims, cfg.idp_secret, cfg.idp_alg)
                  /\ heldClaims' = claims
                  /\ last' = [op |-> "login",
                              response |-> [status |-> 200, token_type |-> "bearer",
                                            expires_in |-> claims.exp - claims.iat]]
    /\ UNCHANGED <<cfg, clock, ticks>>

LocalCredentials ==
    {<<"localuser", "local">>, <<"localadmin", "admin">>, <<"localuser", "admin">>,
     <<"analyst", "analyst">>}

\* POST /local-login
LocalLogin ==
    /\ last = Nothing
    /\ \E cred \in LocalCredentials :
          LET username == cred[1]
              password == cred[2]
          IN
          IF username \notin DOMAIN LOCAL_USERS
             \/ LOCAL_USERS[username].password # password
          THEN /\ last' = [op |-> "local_login",
                           response |-> Http(401, "Invalid credentials")]
               /\ UNCHANGED <<held, heldClaims>>
          ELSE /\ held' = _issue_local_token(username, LOCAL_USERS[username].role, clock)
               /\ heldClaims' = [sub |-> username, role |-> LOCAL_USERS[username].role,
                                 iat |-> clock, exp |-> clock + LOCAL_TTL,
                                 typ |-> "local", iss |-> "local_service"]
               /\ last' = [op |-> "local_login",
                           response |-> [status |-> 200, expires_in |-> LOCAL_TTL]]
    /\ UNCHANGED <<cfg, clock, ticks>>

Absent == [present |-> FALSE, text |-> <<>>]
Text(t) == [present |-> TRUE, text |-> t]

\* The Authorization header values a client sends.
AuthorizationHeaders ==
    {Absent} \cup {Text(t) : t \in
        {<<>>,
         <<"B","e","a","r","e","r">>,
         <<"B","e","a","r","e","r"," ">>,
         <<"B","e","a","r","e","r"," ","\t"," ">>,
         <<"b","e","a","r","e","r"," ",Jws>>,
         <<"B","a","s","i","c"," ",Jws>>,
         <<Jws>>,
         <<"B","e","a","r","e","r"," ",Jws>>,
         <<"B","e","a","r","e","r"," "," ",Jws," ","\n">>,
         <<"B","e","a","r","e","r"," ",Jws," ","x">>,
         <<"B","e","a","r","e","r"," ",JwsForged>>}}

ResourcePaths == {<<"/","r","e","s","o","u","r","c","e">>,
                 <<"/","e","x","p","o","r","t">>,
                 <<"/","a","d","m","i","n","/","m","e","t","r","i","c","s">>}

\* GET /resource, /export, /admin/metrics: get_claims, then _apply_context.
ResourceRequest ==
    /\ last = Nothing
    /\ \E path \in ResourcePaths, authorization \in AuthorizationHeaders :
          LET got == get_claims(authorization, held, clock)
          IN last' =
              IF ~got.ok
              THEN [op |-> "resource", path |-> path, authorization |-> authorization,
                    hour |-> HourOf(clock), claims |-> NoClaims,
                    decision |-> NoDecision, response |-> got.error]
              ELSE [op |-> "resource", path |-> path, authorization |-> authorization,
                    hour |-> HourOf(clock), claims |-> got.claims,
                    decision |-> _apply_context(path, got.claims, HourOf(clock)).decision,
                    response |-> _apply_context(path, got.claims, HourOf(clock)).response]
    /\ UNCHANGED <<cfg, clock, ticks, held, heldClaims>>

LocalCookies == {Absent, Text(<<Jws>>), Text(<<JwsForged>>)}

LocalPaths == {"/local-resource", "/local-admin"}

\* GET /local-resource, /local-admin: require_local_claims, then the handler.
LocalRequest ==
    /\ last = Nothing
    /\ \E path \in LocalPaths, cookie \in LocalCookies :
          LET got == require_local_claims(cookie, held, clock)
          IN last' =
              IF ~got.ok
              THEN [op |-> "local", path |-> path, cookie |-> cookie,
                    claims |-> NoClaims, response |-> got.error]
              ELSE IF path = "/local-admin"
                      /\ ~("role" \in DOMAIN got.claims /\ got.claims["role"] = "admin")
              THEN [op |-> "local", path |-> path, cookie |-> cookie,
                    claims |-> got.claims,
                    response |-> Http(403, "Admin role required for this endpoint")]
              ELSE [op |-> "local", path |-> path, cookie |-> cookie,
                    claims |-> got.claims,
                    response |-> [status |-> 200, body |-> "ok",
                                  subject |-> Get(got.claims, "sub"),
                                  role |-> Get(got.claims, "role")]]
    /\ UNCHANGED <<cfg, clock, ticks, held, heldClaims>>

\* The client takes the response; it sends one request at a time.
Receive ==
    /\ last # Nothing
    /\ last' = Nothing
    /\ UNCHANGED <<cfg, clock, ticks, held, heldClaims>>

\* Time passes between two requests.
Tick ==
    /\ last = Nothing
    /\ ticks < MaxTicks
    /\ \E d \in TickSteps : clock' = clock + d
    /\ ticks' = ticks + 1
    /\ UNCHANGED <<cfg, held, heldClaims, last>>

Init ==
    /\ cfg \in Configs
    /\ clock \in StartTimes
    /\ ticks = 0
    /\ held = NoToken
    /\ heldClaims = NoClaims
    /\ last = Nothing

Next == Login \/ LocalLogin \/ ResourceRequest \/ LocalRequest \/ Receive \/ Tick

Spec == Init /\ [][Next]_vars

(***************************************************************************)
(* _decode_local_token on arbitrary tokens                                 *)
(***************************************************************************)

DecodeTyps == {"local", "access", "Local"}
DecodeIssuers == {"local_service", "idp", "local_service "}

\* exp relative to the time of decoding: past, now, future.
DecodeExpiries == {0 - 1, 0, LOCAL_TTL}

\* The claims of the tokens handed to _decode_local_token.
DecodeClaims(now) ==
    {("sub" :> "localuser") @@ ("role" :> "user") @@ Field("typ", typ)
        @@ Field("iss", iss)
        @@ (IF exp.has THEN "exp" :> (now + exp.v) ELSE <<>>) :
        typ \in Opt(DecodeTyps), iss \in Opt(DecodeIssuers), exp \in Opt(DecodeExpiries)}

\* Tokens signed with either secret and algorithm, and copies edited after
\* signing.
DecodeTokens(now) ==
    LET signed == {jwt_encode(c, secret, alg) :
                      c \in DecodeClaims(now),
                      secret \in {"local-secret", "dev-secret-idp"},
                      alg \in Algorithms}
    IN signed \cup {Forge(t) : t \in signed} \cup {Garbage}

\* _decode_local_token runs on the pending call.
DecodeLocalToken ==
    /\ last.op = "call_decode_local"
    /\ last' = [op |-> "decode_local", token |-> last.token,
                result |-> _decode_local_token(last.token, clock)]
    /\ UNCHANGED <<cfg, clock, ticks, held, heldClaims>>

InitDecode ==
    /\ cfg \in Configs
    /\ clock \in StartTimes
    /\ ticks = 0
    /\ held = NoToken
    /\ heldClaims = NoClaims
    /\ last \in {[op |-> "call_decode_local", token |-> t] : t \in DecodeTokens(clock)}

NextDecode == DecodeLocalToken

SpecDecode == InitDecode /\ [][NextDecode]_vars

(***************************************************************************)
(* The policy decision point on arbitrary verified claims                  *)
(***************************************************************************)

Hours == 0..23

PdpPaths == {<<"/","r","e","s","o","u","r","c","e">>,
            <<"/","e","x","p","o","r","t">>,
            <<"/","e","x","p","o","r","t","/">>,
            <<"/","e","x","p","o","r","t","/","a","l","l">>,
            <<"/","e","x","p","o","r","t","s">>,
            <<"/","E","x","p","o","r","t">>,
            <<"/","a","d","m","i","n">>,
            <<"/","a","d","m","i","n","/","m","e","t","r","i","c","s">>,
            <<"/","a","d","m","i","n","i","s","t","r","a","t","o","r">>,
            <<"/">>}

\* deviceid values of a claims dict: JSON strings and null.
PdpDeviceIds ==
    {JStr(d) : d \in {<<"m","a","c","-","0","0","1">>,
                      <<" ","m","a","c","-","0","0","1","\n">>,
                      <<"M","A","C","-","0","0","1">>,
                      <<"m","a","c","-","0","0","1","2">>,
                      <<"w","i","n","-","0","0","7">>,
                      <<"p","h","o","n","e","-","1","2","3">>,
                      <<"u","n","k","n","o","w","n">>,
                      <<>>,
                      <<" ","\t">>}}
    \cup {JNull}

PdpRoles == {"admin", "Admin", "analyst", "contractor", "user"}

\* riskscore values of a claims dict: integers, strings, null.
PdpRiskScores ==
    {JInt(n) : n \in {0 - 1, 0, 40, 69, 70, 71, 99}}
    \cup {JStr(r) : r \in {<<"7","0">>,
                      <<" ","8","0"," ">>,
                      <<"6","9">>,
                      <<"h","i","g","h">>}}
    \cup {JNull}

MkClaims(role, deviceid, riskscore) ==
    ("sub" :> "someone") @@ Field("role", role) @@ Field("deviceid", deviceid)
        @@ Field("riskscore", riskscore)

\* The calls of evaluate_request_context: a path, a claims dict, and the
\* hour of now (the caller's, or that of datetime.now(TZ)).
PdpCalls ==
    {[op |-> "call_evaluate", path |-> path,
      claims |-> MkClaims(role, deviceid, riskscore), hour |-> hour] :
        path \in PdpPaths, role \in Opt(PdpRoles), deviceid \in Opt(PdpDeviceIds),
        riskscore \in Opt(PdpRiskScores), hour \in Hours}

\* evaluate_request_context runs on the pending call.
Evaluate ==
    /\ last.op = "call_evaluate"
    /\ last' = [op |-> "evaluate", path |-> last.path, claims |-> last.claims,
                hour |-> last.hour,
                result |-> evaluate_request_context(last.path, last.claims, last.hour)]
    /\ UNCHANGED <<cfg, clock, ticks, held, heldClaims>>

InitPdp ==
    /\ cfg = DefaultConfig
    /\ clock = 0
    /\ ticks = 0
    /\ held = NoToken
    /\ heldClaims = NoClaims
    /\ last \in PdpCalls

NextPdp == Evaluate

SpecPdp == InitPdp /\ [][NextPdp]_vars

(***************************************************************************)
(* Properties of the policy decision point (checked under SpecPdp)         *)
(***************************************************************************)

\* The claims' vocabulary, stated without the code's helpers.
ClaimedWindow(hour) == hour >= 7 /\ hour < 19

ClaimedRegistered == {<<"m","a","c","-","0","0","1">>, <<"w","i","n","-","0","0","7">>, <<"p","h","o","n","e","-","1","2","3">>}

ClaimedPrefixes == {<<"/","e","x","p","o","r","t">>, <<"/","a","d","m","i","n">>, <<"/","a","d","m","i","n","/","m","e","t","r","i","c","s">>}

ClaimedSensitive(path) ==
    \E p \in ClaimedPrefixes :
        \/ path = p
        \/ /\ Len(path) > Len(p)
           /\ \A i \in 1..Len(p) : path[i] = p[i]
           /\ path[Len(p) + 1] = "/"

\* The claims' deviceid after trimming; the empty string when absent or null.
ClaimedDevice(claims) ==
    IF "deviceid" \in DOMAIN claims /\ claims["deviceid"].t = "str"
    THEN LET d == claims["deviceid"].s
             keep == {i \in 1..Len(d) : d[i] \notin Whitespace}
         IN IF keep = {} THEN <<>>
            ELSE SubSeq(d, CHOOSE i \in keep : \A j \in keep : i <= j,
                           CHOOSE i \in keep : \A j \in keep : i >= j)
    ELSE <<>>

ClaimedAdmin(claims) == "role" \in DOMAIN claims /\ claims["role"] = "admin"

Evaluated == last.op = "evaluate"

\* C1: outside the half-open window [BH_START, BH_END) the decision is deny
\* with the business-hours reason, whatever the path, role, deviceid and
\* riskscore; hour BH_END is denied and hour BH_START is not denied by this gate.
C1_OutsideHoursAlwaysDeny ==
    Evaluated =>
        /\ ~ClaimedWindow(last.hour) =>
               last.result = DecisionReason("deny", ReasonHours, <<>>)
        /\ last.hour = BH_END => last.result.reason = ReasonHours
        /\ last.hour = BH_START => last.result.reason # ReasonHours
        /\ ClaimedWindow(last.hour) => last.result.reason # ReasonHours

\* An admin with a registered device on a non-sensitive path at hour BH_END.
C1_Witness ==
    /\ Evaluated
    /\ last.hour = BH_END
    /\ ClaimedAdmin(last.claims)
    /\ ClaimedDevice(last.claims) \in ClaimedRegistered
    /\ ~ClaimedSensitive(last.path)
    /\ last.result.decision = "deny"

\* C2: inside business hours, on every path and for every role, a deviceid
\* that is absent or empty after trimming is denied as missing, and any other
\* deviceid outside the registered set is denied as not trusted; no role or
\* riskscore rule is consulted first.
C2_DeviceGateBeforeRoleAndRisk ==
    (Evaluated /\ ClaimedWindow(last.hour)) =>
        /\ ClaimedDevice(last.claims) = <<>> =>
               last.result = DecisionReason("deny", ReasonDeviceMissing, <<>>)
        /\ (ClaimedDevice(last.claims) # <<>>
            /\ ClaimedDevice(last.claims) \notin ClaimedRegistered) =>
               last.result = DecisionReason("deny", ReasonDeviceUntrusted,
                                            ClaimedDevice(last.claims))

\* An admin on a sensitive path, in hours, whose device is not registered.
C2_Witness ==
    /\ Evaluated
    /\ ClaimedWindow(last.hour)
    /\ ClaimedAdmin(last.claims)
    /\ ClaimedSensitive(last.path)
    /\ ClaimedDevice(last.claims) = <<"u","n","k","n","o","w","n">>
    /\ last.result.reason = ReasonDeviceUntrusted

\* C3: inside business hours, with a registered device, on a sensitive path:
\* admin is allowed whatever the riskscore; a non-admin with riskscore >= 70 is
\* denied; a non-admin with riskscore < 70 is challenged; exactly one of the
\* three outcomes applies.
C3_SensitivePathRules ==
    (/\ Evaluated
     /\ ClaimedWindow(last.hour)
     /\ ClaimedDevice(last.claims) \in ClaimedRegistered
     /\ ClaimedSensitive(last.path)) =>
        /\ last.result.decision \in {"allow", "deny", "challenge"}
        /\ ClaimedAdmin(last.claims) =>
               last.result = DecisionReason("allow", ReasonAdmin, <<>>)
        /\ ~ClaimedAdmin(last.claims) => last.result.decision # "allow"
        /\ (/\ ~ClaimedAdmin(last.claims)
            /\ "riskscore" \in DOMAIN last.claims
            /\ last.claims["riskscore"].t = "int") =>
               IF last.claims["riskscore"].v >= 70
               THEN last.result = DecisionReason("deny", ReasonHighRisk, <<>>)
               ELSE last.result = DecisionReason("challenge", ReasonStepUp, <<>>)

\* A non-admin with riskscore exactly 70 on a nested sensitive path is denied.
C3_Witness ==
    /\ Evaluated
    /\ ClaimedWindow(last.hour)
    /\ ClaimedDevice(last.claims) \in ClaimedRegistered
    /\ last.path = <<"/","e","x","p","o","r","t","/","a","l","l">>
    /\ ~ClaimedAdmin(last.claims)
    /\ "riskscore" \in DOMAIN last.claims
    /\ last.claims["riskscore"] = JInt(70)
    /\ last.result.decision = "deny"

\* C4: inside business hours, with a registered device, on a path that is not
\* sensitive (such as /exports), the decision is allow for every role and
\* every riskscore.
C4_NonSensitiveAllow ==
    (/\ Evaluated
     /\ ClaimedWindow(last.hour)
     /\ ClaimedDevice(last.claims) \in ClaimedRegistered
     /\ ~ClaimedSensitive(last.path)) =>
        last.result = DecisionReason("allow", ReasonAllowed, <<>>)

\* A contractor with riskscore 99 on /exports is allowed.
C4_Witness ==
    /\ Evaluated
    /\ ClaimedWindow(last.hour)
    /\ ClaimedDevice(last.claims) \in ClaimedRegistered
    /\ last.path = <<"/","e","x","p","o","r","t","s">>
    /\ "role" \in DOMAIN last.claims
    /\ last.claims["role"] = "contractor"
    /\ "riskscore" \in DOMAIN last.claims
    /\ last.claims["riskscore"] = JInt(99)
    /\ last.result.decision = "allow"

(***************************************************************************)
(* Properties of the risk scorer (checked under SpecRisk)                  *)
(***************************************************************************)

\* The device ids the claim counts as missing or unknown: empty, blank, or
\* 'unknown' / 'none' up to case and surrounding whitespace.
ClaimedUnknownDevices ==
    {JStr(d) : d \in {<<>>,
                      <<" ">>,
                      <<"\t","\n">>,
                      <<"u","n","k","n","o","w","n">>,
                      <<"U","N","K","N","O","W","N">>,
                      <<" ","U","n","k","n","o","w","n"," ">>,
                      <<"n","o","n","e">>,
                      <<"N","o","n","e">>,
                      <<"\t","N","O","N","E","\n">>}}
    \cup {JNull}

ClaimedRisk(role, deviceid) ==
    40 + (IF role = "contractor" THEN 20 ELSE 0)
       + (IF deviceid \in ClaimedUnknownDevices THEN 20 ELSE 0)

\* C8: compute_risk returns 40, plus 20 for the role 'contractor' exactly, plus
\* 20 for a deviceid that is empty, blank, or 'unknown' / 'none' after trimming
\* and lower-casing; the result lies in [0, 99] and is one of 40, 60, 80.
C8_RiskScore ==
    last.op = "compute_risk" =>
        /\ last.result = ClaimedRisk(last.role, last.deviceid)
        /\ last.result >= 0 /\ last.result <= 99
        /\ last.result \in {40, 60, 80}

\* A contractor whose device is ' Unknown ' scores 80.
C8_Witness ==
    /\ last.op = "compute_risk"
    /\ last.role = "contractor"
    /\ last.deviceid = JStr(<<" ","U","n","k","n","o","w","n"," ">>)
    /\ last.result = 80

(***************************************************************************)
(* Properties of the tokens (checked under Spec and SpecDecode)            *)
(***************************************************************************)

\* The credential the client holds was issued by POST /login.
HoldsAccessToken == held.kind = "jws" /\ "typ" \in DOMAIN heldClaims /\ heldClaims["typ"] = "access"

\* The credential the client holds was issued by POST /local-login.
HoldsLocalToken == held.kind = "jws" /\ "typ" \in DOMAIN heldClaims /\ heldClaims["typ"] = "local"

\* Header values 'Bearer <token>' carrying the held credential as it is.
BearerOfHeld == {Text(<<"B","e","a","r","e","r"," ",Jws>>),
                 Text(<<"B","e","a","r","e","r"," "," ",Jws," ","\n">>)}

\* Header values the claim classes as a missing token.
ClaimedMissingHeaders ==
    {Absent, Text(<<>>), Text(<<"B","e","a","r","e","r">>),
     Text(<<"b","e","a","r","e","r"," ",Jws>>),
     Text(<<"B","a","s","i","c"," ",Jws>>),
     Text(<<Jws>>)}

\* Header values whose remainder after 'Bearer ' is blank.
ClaimedEmptyHeaders == {Text(<<"B","e","a","r","e","r"," ">>), Text(<<"B","e","a","r","e","r"," ","\t"," ">>)}

Requested == last.op = "resource"

\* The held credential was signed with the verifier's secret and algorithm.
SignedForVerifier ==
    /\ held.kind = "jws"
    /\ held.sig.key = cfg.api_secret
    /\ held.sig.alg = cfg.api_alg
    /\ held.header.alg = cfg.api_alg

\* C5: a token issued by login, presented unexpired to a verifier configured
\* with the issuer's secret and algorithm, yields exactly the claims that were
\* signed; a token signed with another secret or algorithm than the verifier's
\* always fails with the invalid-token error and never yields claims.
C5_RoundTripAndMismatch ==
    Requested =>
        /\ (/\ HoldsAccessToken
            /\ last.authorization \in BearerOfHeld
            /\ cfg.api_secret = cfg.idp_secret
            /\ cfg.api_alg = cfg.idp_alg
            /\ clock <= heldClaims["exp"]) =>
               last.claims = heldClaims
        /\ (held.kind = "jws" /\ ~SignedForVerifier) =>
               /\ last.claims = NoClaims
               /\ last.authorization \in BearerOfHeld =>
                      /\ last.response.status = 401
                      /\ last.response.detail = "Token invalid"

\* A token of login comes back unchanged at the very second it expires.
C5_Witness ==
    /\ Requested
    /\ HoldsAccessToken
    /\ clock = heldClaims["exp"]
    /\ last.claims = heldClaims
    /\ heldClaims["sub"] = "contractor"

\* C6: the two signing domains are never interchangeable: the resource API's
\* verifier never accepts a session produced by POST /local-login, and
\* _decode_local_token never accepts a token produced by POST /login.
C6_DomainsNeverInterchangeable ==
    /\ (Requested /\ HoldsLocalToken) =>
           /\ last.claims = NoClaims
           /\ last.authorization \in BearerOfHeld =>
                  /\ last.response.status = 401
                  /\ last.response.detail = "Token invalid"
    /\ (last.op = "local" /\ HoldsAccessToken) => last.claims = NoClaims

\* C9: a header that is absent, empty or does not start with 'Bearer ' fails
\* as a missing token; otherwise a blank remainder fails as an empty token;
\* only a non-empty remainder reaches verification, and claims are returned
\* only for a token that passes signature and expiry verification.
C9_HeaderClassification ==
    Requested =>
        /\ last.authorization \in ClaimedMissingHeaders =>
               /\ last.response =
                      Http(401, "Missing Bearer token in Authorization header")
               /\ last.claims = NoClaims
        /\ last.authorization \in ClaimedEmptyHeaders =>
               /\ last.response = Http(401, "Empty bearer token")
               /\ last.claims = NoClaims
        /\ last.authorization \notin (ClaimedMissingHeaders \cup ClaimedEmptyHeaders) =>
               \/ /\ last.response.status = 401
                  /\ last.response.detail = "Token invalid"
               \/ last.claims # NoClaims
        /\ last.claims # NoClaims =>
               /\ last.authorization \in BearerOfHeld
               /\ SignedForVerifier
               /\ last.claims = heldClaims
               /\ clock <= heldClaims["exp"]

\* A valid token sent with the scheme in lower case is a missing token.
C9_Witness ==
    /\ Requested
    /\ last.authorization = Text(<<"b","e","a","r","e","r"," ",Jws>>)
    /\ SignedForVerifier
    /\ clock <= heldClaims["exp"]
    /\ last.response = Http(401, "Missing Bearer token in Authorization header")

\* The device names the risk scorer treats as unknown, in the cases a login
\* can produce.
ClaimedUnknownNames ==
    {<<"u","n","k","n","o","w","n">>,
    <<"U","n","k","n","o","w","n">>,
    <<"U","N","K","N","O","W","N">>,
    <<"n","o","n","e">>,
    <<"N","o","n","e">>,
    <<"N","O","N","E">>}

\* C10: for every token of login, riskscore >= 70 implies the deviceid is
\* 'unknown' or 'none' up to case, which is not registered; so the high
\* riskscore deny is never returned for such a token, and a non-admin token
\* of login with a registered device on a sensitive path inside business
\* hours is challenged.
C10_IssuedTokensNeverHighRiskDenied ==
    HoldsAccessToken =>
        /\ heldClaims["riskscore"].v >= 70 =>
               /\ heldClaims["deviceid"].s \in ClaimedUnknownNames
               /\ heldClaims["deviceid"].s \notin ClaimedRegistered
        /\ (Requested /\ last.claims = heldClaims) =>
               /\ last.decision.reason # ReasonHighRisk
               /\ (/\ heldClaims["role"] # "admin"
                   /\ heldClaims["deviceid"].s \in ClaimedRegistered
                   /\ ClaimedSensitive(last.path)
                   /\ ClaimedWindow(last.hour)) =>
                      /\ last.decision.decision = "challenge"
                      /\ last.response.status = 200
                      /\ last.response.body = "mfa_required"

\* A contractor's token with a registered device is challenged on /export.
C10_Witness ==
    /\ HoldsAccessToken
    /\ Requested
    /\ last.claims = heldClaims
    /\ heldClaims["role"] = "contractor"
    /\ heldClaims["deviceid"].s \in ClaimedRegistered
    /\ heldClaims["riskscore"].v = 60
    /\ last.path = <<"/","e","x","p","o","r","t">>
    /\ ClaimedWindow(last.hour)
    /\ last.decision.decision = "challenge"

Decoded == last.op = "decode_local"

\* The token's signature verifies under the local service's secret and
\* algorithm, and its payload is the one that was signed.
LocalSignatureValid ==
    /\ last.token.kind = "jws"
    /\ last.token.header.alg = cfg.local_alg
    /\ last.token.sig = [key |-> cfg.local_secret, alg |-> cfg.local_alg,
                         header |-> last.token.header,
                         payload |-> last.token.payload]

TokenHas(k, v) ==
    \E i \in 1..Len(last.token.payload) : last.token.payload[i] = <<k, v>>

LocalExpiryValid ==
    \A i \in 1..Len(last.token.payload) :
        last.token.payload[i][1] = "exp" => last.token.payload[i][2] >= clock

\* C7: a token whose signature and expiry are valid under the local secret
\* but whose typ is not 'local' or whose iss is not 'local_service' (or lacks
\* either) is rejected with 401 'Invalid local token context'; claims are
\* returned only when signature, expiry, typ and iss all pass.
C7_LocalContextEnforced ==
    Decoded =>
        /\ (/\ LocalSignatureValid
            /\ LocalExpiryValid
            /\ ~(TokenHas("typ", "local") /\ TokenHas("iss", "local_service"))) =>
               /\ ~last.result.ok
               /\ last.result.error = Http(401, "Invalid local token context")
        /\ last.result.ok <=>
               /\ LocalSignatureValid
               /\ LocalExpiryValid
               /\ TokenHas("typ", "local")
               /\ TokenHas("iss", "local_service")

\* A validly signed, unexpired token with typ 'local' and no iss is rejected.
C7_Witness ==
    /\ Decoded
    /\ LocalSignatureValid
    /\ LocalExpiryValid
    /\ TokenHas("typ", "local")
    /\ \A i \in 1..Len(last.token.payload) : last.token.payload[i][1] # "iss"
    /\ last.result = [ok |-> FALSE, error |-> Http(401, "Invalid local token context")]

====
